---- MODULE Spec2Model ----
(***************************************************************************)
(* One ink-miner peer of BlockArt (src/unnamed/part_001, the complete      *)
(* revision of src/ink-miner.go) together with its environment: the art    *)
(* nodes that call its MArtNode RPCs and the neighbour miners that call    *)
(* its MServer RPCs.                                                       *)
(*                                                                         *)
(* The peer's goroutines are the mining loop (startMiningBlocks), one      *)
(* goroutine per inbound RPC (DisseminateOperation, DisseminateBlock) and  *)
(* one per art-node call (AddShape, DeleteShape).  A step of the model is  *)
(* the code between two points at which a goroutine can be suspended: a    *)
(* lock acquisition, an outbound RPC, a sleep.                             *)
(***************************************************************************)
EXTENDS Integers, Sequences, FiniteSets, TLC

VARIABLES
    Blocks,        \* blockChain.Blocks: block hash -> block
    NewestHash,    \* blockChain.NewestHash
    bcLock,        \* holder of blockChain's sync.RWMutex write lock
    received,      \* the block argument of the DisseminateBlock call in progress
    pending,       \* pendingOperations.all: op hash -> OpRecord
    minerPC,       \* position of the startMiningBlocks goroutine
    nonce,         \* computeBlock's local nonce
    mined,         \* the block computeBlock returned, until it is broadcast
    admitted,      \* whether the pool gained an op since the nonce search began
    calls,         \* number of art-node calls made so far
    callPC,        \* position of the art-node call in progress
    callReq,       \* its request
    callOp,        \* the OpRecord it built and signed
    callRes        \* its reply

chainVars == <<Blocks, NewestHash, bcLock, received>>
minerVars == <<minerPC, nonce, mined, admitted>>
callVars  == <<calls, callPC, callReq, callOp, callRes>>
vars == <<Blocks, NewestHash, bcLock, received, pending, minerPC, nonce, mined, admitted,
          calls, callPC, callReq, callOp, callRes>>

(***************************************************************************)
(* Bounds of the model.                                                    *)
(***************************************************************************)
MaxBlockNum == 3   \* the mining loop stops once the tip has this block_num
MaxCalls == 2      \* art-node calls made in one behaviour

(***************************************************************************)
(* Program constants and the settings the directory server hands out.      *)
(***************************************************************************)
FirstNonce == 0
FirstBlockNum == 1

InkPerOpBlock == 1
InkPerNoOpBlock == 4
PoWDifficultyOpBlock == 2
PoWDifficultyNoOpBlock == 1
CanvasXMax == 4
GenesisBlockHash == <<"genesis">>

(***************************************************************************)
(* Keys.  The art nodes of this peer hold the miner's own key pair; every  *)
(* other author is reached through gossip only.  A private key is named by *)
(* its public key.                                                         *)
(***************************************************************************)
MinerKey == "A"
OtherKey == "B"
PubKeys == {MinerKey, OtherKey}

(***************************************************************************)
(* ECDSA.  A signature records who signed what; rnd is the randomness of   *)
(* ecdsa.Sign, which makes two signatures of one message differ.           *)
(***************************************************************************)
ecdsaSign(priv, msg, rnd) == [signer |-> priv, msg |-> msg, rnd |-> rnd]

ecdsaVerify(pub, msg, sig) == sig.signer = pub /\ sig.msg = msg

(***************************************************************************)
(* Geometry collaborator (package util).  The canvas is one row of cells   *)
(* 1..CanvasXMax; an SVG path "M a L b" is the pair <<a, b>> and covers    *)
(* the cells a..b.                                                         *)
(***************************************************************************)
ConvertPathToPoints(d) == d[1] .. d[2]

CheckOutOfBounds(points, xmax) == \E p \in points : p < 1 \/ p > xmax

CheckOverlap(a, b) == a \cap b # {}

CalculateInkRequired(points) == Cardinality(points)

(***************************************************************************)
(* Operation strings.  ConvertToSvgPathString(d, stroke, fill) renders     *)
(* <path d="..." stroke="..." fill="..."/>; DeleteShape prefixes "delete ".*)
(* An op string is kept as the number of "delete " prefixes, the d         *)
(* attribute and the fill attribute.                                       *)
(***************************************************************************)
ConvertToSvgPathString(d, fill) == [del |-> 0, d |-> d, fill |-> fill]

concatDelete(op) == [op EXCEPT !.del = @ + 1]

isOpDelete(op) == op.del > 0

parsePath(op) == <<op.d, op.fill>>

(***************************************************************************)
(* Hashes.  MD5 of the JSON encoding is injective on the values the model  *)
(* builds; the digest is kept as the tuple of the encoded fields.  The     *)
(* number of trailing '0' hex characters is a fixed function of the        *)
(* encoded fields.                                                         *)
(***************************************************************************)
ComputeOpRecordHash(op) == <<"op", op.Op, op.InkUsed, op.OpSig, op.AuthorPubKey>>

ComputeBlockHash(block) ==
    <<"block", block.BlockNum, block.PrevHash, block.OpRecords,
      block.MinerPubKey, block.Nonce>>

TrailingZeros(hash) ==
    LET r == (hash[6] + hash[2] + Cardinality(DOMAIN hash[4])) % 3
    IN  CASE r = 0 -> 2
          [] r = 1 -> 0
          [] OTHER -> 1

verifyTrailingZeros(hash, numZeros) == TrailingZeros(hash) >= numZeros

(***************************************************************************)
(* Ledger views: tip-to-genesis traversals of the chain store.  They take  *)
(* the store and the hash to start from, the way the Go functions read     *)
(* the globals blockChain.Blocks and blockChain.NewestHash.                *)
(***************************************************************************)
RECURSIVE Ancestry(_, _)
Ancestry(blocks, blockHash) ==
    IF blockHash = GenesisBlockHash
    THEN <<>>
    ELSE <<blockHash>> \o Ancestry(blocks, blocks[blockHash].PrevHash)

RECURSIVE GetOpRecordTraversal(_, _, _)
GetOpRecordTraversal(blocks, blockHash, shapeHash) ==
    IF blockHash = GenesisBlockHash
    THEN [exists |-> FALSE]
    ELSE IF shapeHash \in DOMAIN blocks[blockHash].OpRecords
         THEN [exists |-> TRUE,
               opRecord |-> blocks[blockHash].OpRecords[shapeHash],
               blockHash |-> blockHash]
         ELSE GetOpRecordTraversal(blocks, blocks[blockHash].PrevHash, shapeHash)

VerifyOpRecordAuthor_SignatureOnly(requestorPublicKey, opRecord) ==
    ecdsaVerify(opRecord.AuthorPubKey, opRecord.Op, opRecord.OpSig)

VerifyOpRecordAuthor(requestorPublicKey, opRecord) ==
    /\ requestorPublicKey = opRecord.AuthorPubKey
    /\ ecdsaVerify(opRecord.AuthorPubKey, opRecord.Op, opRecord.OpSig)

opInk_DeleteSpends(opRecord, pubKey) ==
    IF opRecord.AuthorPubKey = pubKey THEN 0 - opRecord.InkUsed ELSE 0

\* the signed ink of one op for pubKey: a delete refunds, a create spends
opInk(opRecord, pubKey) ==
    IF opRecord.AuthorPubKey = pubKey
    THEN IF isOpDelete(opRecord.Op) THEN opRecord.InkUsed ELSE 0 - opRecord.InkUsed
    ELSE 0

RECURSIVE sumOpInk(_, _, _)
sumOpInk(opRecords, hashes, pubKey) ==
    IF hashes = {}
    THEN 0
    ELSE LET h == CHOOSE x \in hashes : TRUE
         IN  opInk(opRecords[h], pubKey) + sumOpInk(opRecords, hashes \ {h}, pubKey)

\* the body of GetInkTraversal's loop: what one block adds to pubKey's ink
blockInk(block, pubKey) ==
    IF DOMAIN block.OpRecords = {}
    THEN IF block.MinerPubKey = pubKey THEN InkPerNoOpBlock ELSE 0
    ELSE (IF block.MinerPubKey = pubKey THEN InkPerOpBlock ELSE 0)
         + sumOpInk(block.OpRecords, DOMAIN block.OpRecords, pubKey)

RECURSIVE GetInkTraversal(_, _, _)
GetInkTraversal(blocks, blockHash, pubKey) ==
    IF blockHash = GenesisBlockHash
    THEN 0
    ELSE blockInk(blocks[blockHash], pubKey)
         + GetInkTraversal(blocks, blocks[blockHash].PrevHash, pubKey)

\* removes every string of shapesToDelete from allShapes.  The loop deletes by
\* index from the slice it ranges over; with at most one create and one delete
\* of other authors in a block, as in every block of this model, it removes
\* exactly the matching string.
removeShapesDeleted(allShapes, shapesToDelete) == allShapes \ shapesToDelete

\* the d attributes of the creates of one block that pubKey did not author,
\* less those a delete of the same block names
getShapesFromOpRecords(opRecords, pubKey) ==
    LET others == {h \in DOMAIN opRecords : opRecords[h].AuthorPubKey # pubKey}
        shapesDrawnByOtherApps ==
            {parsePath(opRecords[h].Op)[1] :
                h \in {x \in others : ~isOpDelete(opRecords[x].Op)}}
        shapesToDelete ==
            {parsePath(opRecords[h].Op)[1] :
                h \in {x \in others : isOpDelete(opRecords[x].Op)}}
    IN  removeShapesDeleted(shapesDrawnByOtherApps, shapesToDelete)

RECURSIVE GetShapeTraversal(_, _, _)
GetShapeTraversal(blocks, blockHash, pubKey) ==
    IF blockHash = GenesisBlockHash
    THEN {}
    ELSE getShapesFromOpRecords(blocks[blockHash].OpRecords, pubKey)
         \cup GetShapeTraversal(blocks, blocks[blockHash].PrevHash, pubKey)

(***************************************************************************)
(* Maps (Go's map[string]*T) are functions; these are insert and delete.   *)
(***************************************************************************)
EmptyMap == [x \in {} |-> x]

mapPut(m, k, v) == [x \in DOMAIN m \cup {k} |-> IF x = k THEN v ELSE m[x]]

mapDeleteAll(m, ks) == [x \in DOMAIN m \ ks |-> m[x]]

None == [none |-> TRUE]

(***************************************************************************)
(* The environment's inputs.                                               *)
(***************************************************************************)
Fill == "transparent"

\* the SVG paths and the validate_num the art node asks for
Paths == {<<1, 4>>}

ValidateNums == {0, 1}

\* OpRecords that neighbours gossip and that no art node of this peer made:
\* a signed create by another author, which overlaps <<1, 4>>, and a delete
\* that names that author, is signed under a different key, claims no ink and
\* targets a shape of the same d attribute and another fill, which no block
\* holds
OtherFill == "red"

GossipOps ==
    {[Op |-> ConvertToSvgPathString(<<2, 3>>, Fill), InkUsed |-> 2,
      OpSig |-> ecdsaSign(OtherKey, ConvertToSvgPathString(<<2, 3>>, Fill), 0),
      AuthorPubKey |-> OtherKey],
     [Op |-> concatDelete(ConvertToSvgPathString(<<2, 3>>, OtherFill)), InkUsed |-> 0,
      OpSig |-> ecdsaSign(MinerKey,
                          concatDelete(ConvertToSvgPathString(<<2, 3>>, OtherFill)), 0),
      AuthorPubKey |-> OtherKey]}

(***************************************************************************)
(* State after main() has registered and set the tip to the genesis hash.  *)
(***************************************************************************)
Init ==
    /\ Blocks = EmptyMap
    /\ NewestHash = GenesisBlockHash
    /\ bcLock = "free"
    /\ received = None
    /\ pending = EmptyMap
    /\ minerPC = "Lock"
    /\ nonce = FirstNonce
    /\ mined = None
    /\ admitted = FALSE
    /\ calls = 0
    /\ callPC = "idle"
    /\ callReq = None
    /\ callOp = None
    /\ callRes = None

\* the process has not exited (errLog.Fatalf ends it)
running == minerPC # "exited"

\* block_num of the block the tip designates (0 while the store is empty)
TipBlockNum ==
    IF NewestHash = GenesisBlockHash THEN 0 ELSE Blocks[NewestHash].BlockNum

(***************************************************************************)
(* The mining loop, startMiningBlocks.                                     *)
(***************************************************************************)
\* blockChain.Lock() at the top of the loop
MinerLock ==
    /\ minerPC = "Lock"
    /\ bcLock = "free"
    /\ TipBlockNum < MaxBlockNum
    /\ bcLock' = "miner"
    /\ minerPC' = "computeBlock"
    /\ nonce' = FirstNonce
    /\ admitted' = FALSE
    /\ UNCHANGED <<Blocks, NewestHash, received, pending, mined, callVars>>

\* seeded fault for C9: the difficulty of a NoOp block whatever the pool holds
numZeros_AlwaysNoOp(pool) ==
    PoWDifficultyNoOpBlock

\* computeBlock: the difficulty for the pool as it is in this iteration
numZeros(pool) ==
    IF DOMAIN pool = {} THEN PoWDifficultyNoOpBlock ELSE PoWDifficultyOpBlock

\* seeded fault for C8: the candidate takes the tip's block number
nextBlockNum_NoIncrement(blocks, newestHash) ==
    IF DOMAIN blocks = {}
    THEN FirstBlockNum
    ELSE blocks[newestHash].BlockNum

\* computeBlock: the block number of the candidate
nextBlockNum(blocks, newestHash) ==
    IF DOMAIN blocks = {}
    THEN FirstBlockNum
    ELSE blocks[newestHash].BlockNum + 1

\* computeBlock: the candidate block of one iteration, with a copy of the pool
candidateBlock(blocks, newestHash, pool, n) ==
    [BlockNum |-> nextBlockNum(blocks, newestHash),
     PrevHash |-> newestHash,
     OpRecords |-> [h \in DOMAIN pool |-> pool[h]],
     MinerPubKey |-> MinerKey,
     Nonce |-> n]

\* one iteration of computeBlock's loop, under pendingOperations.Lock()
computeBlock ==
    /\ minerPC = "computeBlock"
    /\ LET block == candidateBlock(Blocks, NewestHash, pending, nonce)
       IN  IF verifyTrailingZeros(ComputeBlockHash(block), numZeros(pending))
           THEN /\ mined' = block
                /\ minerPC' = "insert"
                /\ nonce' = nonce
           ELSE /\ nonce' = nonce + 1
                /\ UNCHANGED <<mined, minerPC>>
    /\ UNCHANGED <<chainVars, pending, admitted, callVars>>

\* seeded fault for C21: the mined block replaces the store
MinerInsert_ReplacesStore ==
    /\ minerPC = "insert"
    /\ Blocks' = mapPut(EmptyMap, ComputeBlockHash(mined), mined)
    /\ NewestHash' = ComputeBlockHash(mined)
    /\ minerPC' = "remove"
    /\ UNCHANGED <<bcLock, received, pending, nonce, mined, admitted, callVars>>

\* seeded fault for C35: the tip is advanced to a block that is not stored
MinerInsert_TipOnly ==
    /\ minerPC = "insert"
    /\ NewestHash' = ComputeBlockHash(mined)
    /\ minerPC' = "remove"
    /\ UNCHANGED <<Blocks, bcLock, received, pending, nonce, mined, admitted, callVars>>

\* seeded fault for C7: the mined block is stored but the tip is not advanced
MinerInsert_KeepsTip ==
    /\ minerPC = "insert"
    /\ Blocks' = mapPut(Blocks, ComputeBlockHash(mined), mined)
    /\ minerPC' = "remove"
    /\ UNCHANGED <<NewestHash, bcLock, received, pending, nonce, mined, admitted, callVars>>

\* startMiningBlocks: the mined block becomes a stored block and the tip
MinerInsert ==
    /\ minerPC = "insert"
    /\ Blocks' = mapPut(Blocks, ComputeBlockHash(mined), mined)
    /\ NewestHash' = ComputeBlockHash(mined)
    /\ minerPC' = "remove"
    /\ UNCHANGED <<bcLock, received, pending, nonce, mined, admitted, callVars>>

removeOperationsFromPendingOperations(pool, opRecords) ==
    mapDeleteAll(pool, DOMAIN opRecords)

\* seeded fault for C38: the stored block shares its op map with the pool, so
\* that the ops leave the block as they leave the pool
MinerRemove_AliasesPool ==
    /\ minerPC = "remove"
    /\ pending' = removeOperationsFromPendingOperations(pending, mined.OpRecords)
    /\ Blocks' = [Blocks EXCEPT ![NewestHash].OpRecords = EmptyMap]
    /\ minerPC' = "send"
    /\ UNCHANGED <<NewestHash, bcLock, received, nonce, mined, admitted, callVars>>

\* broadcastNewBlock, first half: the block's ops leave the pool
MinerRemove ==
    /\ minerPC = "remove"
    /\ pending' = removeOperationsFromPendingOperations(pending, mined.OpRecords)
    /\ minerPC' = "send"
    /\ UNCHANGED <<chainVars, nonce, mined, admitted, callVars>>

\* broadcastNewBlock, second half: sendToAllConnectedMiners has returned, and
\* startMiningBlocks unlocks the chain store.  The calls to the neighbours of
\* the roster are synchronous: the step is taken at once while the roster is
\* empty, and is never taken when a neighbour's handler does not return.
MinerSend ==
    /\ minerPC = "send"
    /\ bcLock' = "free"
    /\ minerPC' = "Lock"
    /\ mined' = None
    /\ UNCHANGED <<Blocks, NewestHash, received, pending, nonce, admitted, callVars>>

\* broadcastNewBlock, second half, when the roster holds a neighbour that
\* cannot be dialled: rpc.Dial returns an error and handleError calls
\* errLog.Fatalf, which ends the process
MinerSendFails ==
    /\ minerPC = "send"
    /\ minerPC' = "exited"
    /\ UNCHANGED <<chainVars, pending, nonce, mined, admitted, callVars>>

(***************************************************************************)
(* Inbound gossip.                                                         *)
(***************************************************************************)
\* The OpRecords of the stored blocks.  Each of them was sent to the neighbours
\* before it was mined, and a neighbour forwards what it receives to all of its
\* own neighbours, this peer among them.
MinedOps ==
    UNION {{Blocks[b].OpRecords[h] : h \in DOMAIN Blocks[b].OpRecords} : b \in DOMAIN Blocks}

\* whether an admission falls inside a nonce search that has already failed
\* at least once
duringSearch == minerPC = "computeBlock" /\ nonce # FirstNonce

\* MServer.DisseminateOperation: admit an unknown op and forward it; both
\* happen in the branch that found the hash missing from the pool
DisseminateOperation(op) ==
    LET opRecordHash == ComputeOpRecordHash(op)
    IN  /\ running
        /\ IF opRecordHash \notin DOMAIN pending
           THEN /\ pending' = mapPut(pending, opRecordHash, op)
                /\ admitted' = (admitted \/ duringSearch)
           ELSE UNCHANGED <<pending, admitted>>
        /\ UNCHANGED <<chainVars, minerPC, nonce, mined, callVars>>

\* MServer.DisseminateOperation when the roster holds a neighbour that cannot
\* be dialled: the op is admitted, rpc.Dial fails in sendToAllConnectedMiners
\* and handleError ends the process
DisseminateOperationFails(op) ==
    LET opRecordHash == ComputeOpRecordHash(op)
    IN  /\ running
        /\ opRecordHash \notin DOMAIN pending
        /\ pending' = mapPut(pending, opRecordHash, op)
        /\ admitted' = (admitted \/ duringSearch)
        /\ minerPC' = "exited"
        /\ UNCHANGED <<chainVars, nonce, mined, callVars>>

\* the blocks a neighbour may deliver: the block this peer mined last (it sent
\* the block to its neighbours, which forward it) and a block another miner
\* mined on the genesis hash
ForeignBlock ==
    [BlockNum |-> FirstBlockNum, PrevHash |-> GenesisBlockHash, OpRecords |-> EmptyMap,
     MinerPubKey |-> OtherKey, Nonce |-> 1]

\* the next block of that miner's chain
ForeignChild ==
    [BlockNum |-> FirstBlockNum + 1, PrevHash |-> ComputeBlockHash(ForeignBlock),
     OpRecords |-> EmptyMap, MinerPubKey |-> OtherKey, Nonce |-> 1]

ReceivedBlocks ==
    {Blocks[h] : h \in DOMAIN Blocks \cap {NewestHash}} \cup {ForeignBlock, ForeignChild}

\* seeded fault for C11: the handler stores what it receives and makes it the
\* tip without looking the hash up first
DisseminateBlock_SavesAgain(block) ==
    /\ running
    /\ bcLock = "free"
    /\ bcLock' = "DisseminateBlock"
    /\ received' = block
    /\ Blocks' = mapPut(Blocks, ComputeBlockHash(block), block)
    /\ NewestHash' = ComputeBlockHash(block)
    /\ UNCHANGED <<pending, minerVars, callVars>>

\* MServer.DisseminateBlock takes blockChain.Lock() and calls isValidBlock,
\* whose first statement is blockChain.Lock() again.  sync.RWMutex is not
\* reentrant: the handler waits for itself, and the lock is never released.
DisseminateBlock(block) ==
    /\ running
    /\ bcLock = "free"
    /\ bcLock' = "DisseminateBlock"
    /\ received' = block
    /\ UNCHANGED <<Blocks, NewestHash, pending, minerVars, callVars>>

(***************************************************************************)
(* Block validation and reconciliation: the code DisseminateBlock calls    *)
(* after isValidBlock's blockChain.Lock().  No behaviour executes it, for  *)
(* the handler never gets that lock; the operators give what each function *)
(* computes from the state it would read.                                  *)
(***************************************************************************)
\* isValidOperation: every check reads the chain from blockChain.NewestHash,
\* for a delete as for a create
isValidOperation(blocks, newestHash, op) ==
    LET inkRemaining == GetInkTraversal(blocks, newestHash, op.AuthorPubKey)
        requestedSVGPath == ConvertPathToPoints(parsePath(op.Op)[1])
    IN  /\ inkRemaining > 0
        /\ ~CheckOutOfBounds(requestedSVGPath, CanvasXMax)
        /\ ~\E s \in GetShapeTraversal(blocks, newestHash, op.AuthorPubKey) :
                CheckOverlap(ConvertPathToPoints(s), requestedSVGPath)
        /\ CalculateInkRequired(requestedSVGPath) <= inkRemaining

hasValidOperations(blocks, newestHash, ops) ==
    \A h \in DOMAIN ops : isValidOperation(blocks, newestHash, ops[h])

\* isValidBlock for a store that holds the block's parent (updateBlockChain
\* is called only when it does not)
isValidBlock(blocks, newestHash, block) ==
    /\ ComputeBlockHash(block) \notin DOMAIN blocks
    /\ block.PrevHash \in DOMAIN blocks
    /\ block.BlockNum = blocks[block.PrevHash].BlockNum + 1
    /\ verifyTrailingZeros(ComputeBlockHash(block),
                           IF DOMAIN block.OpRecords = {}
                           THEN PoWDifficultyNoOpBlock
                           ELSE PoWDifficultyOpBlock)
    /\ hasValidOperations(blocks, newestHash, block.OpRecords)

\* saveBlockToBlockChain on a store that is not empty: the store and the tip
saveBlockToBlockChain(blocks, newestHash, block) ==
    [Blocks |-> mapPut(blocks, ComputeBlockHash(block), block),
     NewestHash |-> IF block.BlockNum > blocks[newestHash].BlockNum
                    THEN ComputeBlockHash(block)
                    ELSE newestHash]

\* switchToLongestBranch ranges over the map of blocks and keeps the first
\* block of the greatest BlockNum it meets; Go's map order is not fixed, so
\* any block of the greatest BlockNum can be the result
switchToLongestBranch(blocks) ==
    {hash \in DOMAIN blocks :
        \A other \in DOMAIN blocks : blocks[other].BlockNum <= blocks[hash].BlockNum}

\* bc.Blocks[bc.NewestHash].BlockNum: the map holds pointers, and the lookup
\* of a missing key yields nil, whose field cannot be read: the goroutine
\* panics (blockNum 0 stands for that case here and is never compared)
Panic == [panic |-> TRUE]

tipIsStored(bc) == bc.NewestHash \in DOMAIN bc.Blocks

tipBlockNum(bc) == IF tipIsStored(bc) THEN bc.Blocks[bc.NewestHash].BlockNum ELSE 0

\* getMajorityBlockChainFromNeighbours on the chains the neighbours returned
\* and the local chain, appended last.  Chains are compared by the MD5 of
\* their JSON text, that is by value.  The results are a set: the second loop
\* ranges over a map, in an order Go does not fix, reads the tip block of
\* every chain left in hashCount, and keeps the first chain of the greatest
\* BlockNum it meets.  Panic is the result when a tip block is missing.
getMajorityBlockChainFromNeighbours(neighbourChains, localChain) ==
    LET blockChains == neighbourChains \o <<localChain>>
        indices == 1 .. Len(blockChains)
        count(bc) == Cardinality({i \in indices : blockChains[i] = bc})
        maxCount == CHOOSE n \in 1 .. Len(blockChains) :
                        /\ \E i \in indices : count(blockChains[i]) = n
                        /\ \A i \in indices : count(blockChains[i]) <= n
        hashCount == {blockChains[i] : i \in {j \in indices :
                                                 count(blockChains[j]) >= maxCount}}
        greatest(chains) == {bc \in chains :
                                \A other \in chains : tipBlockNum(other) <= tipBlockNum(bc)}
    IN  IF hashCount = {}
        THEN IF \E i \in indices : ~tipIsStored(blockChains[i])
             THEN {Panic}
             ELSE {blockChains[CHOOSE i \in indices :
                       /\ blockChains[i] \in greatest({blockChains[j] : j \in indices})
                       /\ \A j \in 1 .. i - 1 :
                             blockChains[j] \notin greatest({blockChains[k] : k \in indices})]}
        ELSE IF \E bc \in hashCount : ~tipIsStored(bc)
             THEN {Panic}
             ELSE greatest(hashCount)

\* Chains a neighbour can return from GetBlockChain: the chain of another
\* miner after its first and after its second block, and the chain of a
\* neighbour that has stored nothing
ForeignChains ==
    {[Blocks |-> mapPut(EmptyMap, ComputeBlockHash(ForeignBlock), ForeignBlock),
      NewestHash |-> ComputeBlockHash(ForeignBlock)],
     [Blocks |-> mapPut(mapPut(EmptyMap, ComputeBlockHash(ForeignBlock), ForeignBlock),
                        ComputeBlockHash(ForeignChild), ForeignChild),
      NewestHash |-> ComputeBlockHash(ForeignChild)],
     [Blocks |-> EmptyMap, NewestHash |-> GenesisBlockHash]}

\* the answers of one or two neighbours
NeighbourChains ==
    {<<bc>> : bc \in ForeignChains} \cup (ForeignChains \X ForeignChains)

\* GetAllOperationsFromBlockChain: the op hashes met on the walk from the
\* chain's NewestHash to the genesis hash
GetAllOperationsFromBlockChain(bc) ==
    LET anc == Ancestry(bc.Blocks, bc.NewestHash)
    IN  UNION {DOMAIN bc.Blocks[anc[i]].OpRecords : i \in 1 .. Len(anc)}

\* updatePendingOperations: the pool after the adoption of bc
updatePendingOperations(bc, pool) ==
    mapDeleteAll(pool, GetAllOperationsFromBlockChain(bc))

\* updateBlockChain: the chains the local chain can be after the election;
\* the elected chain replaces the local one when the two differ
updateBlockChain(neighbourChains, localChain) ==
    {IF bc # localChain THEN bc ELSE localChain :
        bc \in getMajorityBlockChainFromNeighbours(neighbourChains, localChain)}

\* A store a neighbour can return: the other miner's two blocks, the second
\* of them the tip, and a block of the same BlockNum that arrived later and
\* holds the ops this peer has gossiped
SideBlock ==
    [BlockNum |-> FirstBlockNum + 1, PrevHash |-> ComputeBlockHash(ForeignBlock),
     OpRecords |-> pending, MinerPubKey |-> OtherKey, Nonce |-> FirstNonce]

ForkedChain ==
    [Blocks |-> mapPut(mapPut(mapPut(EmptyMap, ComputeBlockHash(ForeignBlock), ForeignBlock),
                              ComputeBlockHash(ForeignChild), ForeignChild),
                       ComputeBlockHash(SideBlock), SideBlock),
     NewestHash |-> ComputeBlockHash(ForeignChild)]

\* Blocks a neighbour can have mined from what this peer sent it: a block with
\* the parent and the ops of a stored block, and a block on the tip that holds
\* the pool
SiblingBlocks == {[Blocks[b] EXCEPT !.MinerPubKey = OtherKey] : b \in DOMAIN Blocks}

ChildBlocks ==
    {[BlockNum |-> Blocks[b].BlockNum + 1, PrevHash |-> b, OpRecords |-> pending,
      MinerPubKey |-> OtherKey, Nonce |-> n] : b \in DOMAIN Blocks \cap {NewestHash},
                                               n \in FirstNonce .. FirstNonce + 2}

(***************************************************************************)
(* Art-node calls.  The art node of this peer holds the miner's own key    *)
(* and makes its calls one after the other, as blockartlib does; the       *)
(* call numbered n signs with randomness n.                                *)
(***************************************************************************)
mayStart == running /\ callPC \in {"idle", "done"} /\ calls < MaxCalls

\* AddShape's checks, in the order the handler makes them; "ok" when all pass
addShapeError(blocks, newestHash, pool, d) ==
    LET inkRemaining == GetInkTraversal(blocks, newestHash, MinerKey)
        requestedSVGPath == ConvertPathToPoints(d)
        inkRequired == CalculateInkRequired(requestedSVGPath)
        pendingInkUsed == 0 - sumOpInk(pool, DOMAIN pool, MinerKey)
    IN  IF inkRemaining <= 0 THEN "INSUFFICIENTINK"
        ELSE IF CheckOutOfBounds(requestedSVGPath, CanvasXMax) THEN "OUTOFBOUNDS"
        ELSE IF \E s \in GetShapeTraversal(blocks, newestHash, MinerKey) :
                    CheckOverlap(ConvertPathToPoints(s), requestedSVGPath)
             THEN "SHAPEOVERLAP"
        ELSE IF inkRequired > inkRemaining THEN "INSUFFICIENTINK"
        ELSE IF \E h \in DOMAIN pool :
                    /\ pool[h].AuthorPubKey # MinerKey
                    /\ CheckOverlap(requestedSVGPath,
                                    ConvertPathToPoints(parsePath(pool[h].Op)[1]))
             THEN "SHAPEOVERLAP"
        ELSE IF pendingInkUsed + inkRequired > inkRemaining THEN "INSUFFICIENTINK"
        ELSE "ok"

\* the OpRecord AddShape builds and signs
addShapeOpRecord(d, rnd) ==
    LET shapeSvgPathString == ConvertToSvgPathString(d, Fill)
    IN  [Op |-> shapeSvgPathString,
         InkUsed |-> CalculateInkRequired(ConvertPathToPoints(d)),
         OpSig |-> ecdsaSign(MinerKey, shapeSvgPathString, rnd),
         AuthorPubKey |-> MinerKey]

\* MArtNode.AddShape up to the call of broadcastNewOperation
AddShape(d, validateNum) ==
    /\ mayStart
    /\ calls' = calls + 1
    /\ callReq' = [kind |-> "AddShape", d |-> d, validateNum |-> validateNum]
    /\ LET err == addShapeError(Blocks, NewestHash, pending, d)
       IN  IF err = "ok"
           THEN /\ callOp' = addShapeOpRecord(d, calls + 1)
                /\ callPC' = "broadcast"
                /\ callRes' = None
           ELSE /\ callPC' = "done"
                /\ callRes' = [err |-> err, validated |-> FALSE]
                /\ callOp' = None
    /\ UNCHANGED <<chainVars, pending, minerVars>>

deleteShapeOpRecord_NoInk(opRecord, rnd) ==
    LET newOp == concatDelete(opRecord.Op)
    IN  [Op |-> newOp,
         InkUsed |-> 0,
         OpSig |-> ecdsaSign(MinerKey, newOp, rnd),
         AuthorPubKey |-> MinerKey]

\* the OpRecord DeleteShape builds and signs for the op it found
deleteShapeOpRecord(opRecord, rnd) ==
    LET newOp == concatDelete(opRecord.Op)
    IN  [Op |-> newOp,
         InkUsed |-> opRecord.InkUsed,
         OpSig |-> ecdsaSign(MinerKey, newOp, rnd),
         AuthorPubKey |-> MinerKey]

\* the shape hashes an art node may name: ops of stored blocks and of neighbours
ShapeHashes ==
    UNION {DOMAIN Blocks[b].OpRecords : b \in DOMAIN Blocks}
        \cup {ComputeOpRecordHash(op) : op \in GossipOps}

\* MArtNode.DeleteShape up to the call of broadcastNewOperation
DeleteShape(shapeHash, validateNum) ==
    /\ mayStart
    /\ calls' = calls + 1
    /\ callReq' = [kind |-> "DeleteShape", shapeHash |-> shapeHash,
                   validateNum |-> validateNum]
    /\ LET found == GetOpRecordTraversal(Blocks, NewestHash, shapeHash)
       IN  IF found.exists /\ VerifyOpRecordAuthor(MinerKey, found.opRecord)
           THEN /\ callOp' = deleteShapeOpRecord(found.opRecord, calls + 1)
                /\ callPC' = "broadcast"
                /\ callRes' = None
           ELSE /\ callPC' = "done"
                /\ callRes' = [err |-> "SHAPEOWNER", validated |-> FALSE]
                /\ callOp' = None
    /\ UNCHANGED <<chainVars, pending, minerVars>>

\* InkMiner.broadcastNewOperation: pool the op and send it to the neighbours
broadcastNewOperation ==
    LET opRecordHash == ComputeOpRecordHash(callOp)
    IN  /\ running
        /\ callPC = "broadcast"
        /\ IF opRecordHash \notin DOMAIN pending
           THEN /\ pending' = mapPut(pending, opRecordHash, callOp)
                /\ admitted' = (admitted \/ duringSearch)
           ELSE UNCHANGED <<pending, admitted>>
        /\ callPC' = "waitPending"
        /\ UNCHANGED <<chainVars, minerPC, nonce, mined, calls, callReq, callOp, callRes>>

(***************************************************************************)
(* IsValidatedByValidateNum, the N-confirmation wait.  Each poll is a      *)
(* step; a poll that finds nothing new sleeps and leaves the state as it   *)
(* is.                                                                     *)
(***************************************************************************)
\* outer loop: the op has left the pool
WaitPending ==
    /\ running
    /\ callPC = "waitPending"
    /\ ComputeOpRecordHash(callOp) \notin DOMAIN pending
    /\ callPC' = "waitChain"
    /\ UNCHANGED <<chainVars, pending, minerVars, calls, callReq, callOp, callRes>>

\* seeded fault for C3: the depth is not compared with validateNum
hasValidateNum_AnyDepth(newestBlockNum, blockNumOfOp, validateNum) ==
    newestBlockNum >= blockNumOfOp

\* newestBlockNum-blockNumOfOp >= uint32(validateNum).  The operands are uint32
\* and validateNum is a uint8: a difference below zero wraps to a value above
\* every validateNum.
hasValidateNum(newestBlockNum, blockNumOfOp, validateNum) ==
    IF newestBlockNum >= blockNumOfOp
    THEN newestBlockNum - blockNumOfOp >= validateNum
    ELSE TRUE

\* what one poll of the inner loop returns: "sleep" to poll again
pollChain(blocks, newestHash, opRecordHash, validateNum, pubKey) ==
    LET found == GetOpRecordTraversal(blocks, newestHash, opRecordHash)
    IN  IF found.exists
        THEN IF /\ hasValidateNum(blocks[newestHash].BlockNum,
                                  blocks[found.blockHash].BlockNum, validateNum)
                /\ VerifyOpRecordAuthor(pubKey, found.opRecord)
             THEN [ret |-> "validated", blockHash |-> found.blockHash]
             ELSE [ret |-> "sleep"]
        ELSE [ret |-> "failed"]

\* what AddShape and DeleteShape reply once the wait has returned
callReply(poll, inkRemaining) ==
    IF poll.ret = "validated"
    THEN IF inkRemaining < 0
         THEN [err |-> "MISC", validated |-> TRUE, blockHash |-> poll.blockHash]
         ELSE [err |-> "ok", validated |-> TRUE, blockHash |-> poll.blockHash,
               inkRemaining |-> inkRemaining]
    ELSE [err |-> "MISC", validated |-> FALSE]

\* IsValidatedByValidateNum takes neither lock, so its reads of the pool and
\* of the store race with the writes the miner makes while it holds them.  The
\* call last synchronised with the miner when broadcastNewOperation locked the
\* pool, before the block that holds the op was built; every later write to
\* blockChain.NewestHash may or may not be visible to a read of the wait.  The
\* tips a read can return are therefore the tip, every ancestor of it back to
\* the oldest block that holds the op, and the parent of that block (any older
\* tip reads like that parent: the op is not found).
racyTips(blocks, newestHash, opRecordHash) ==
    LET anc == Ancestry(blocks, newestHash)
        holding == {i \in 1 .. Len(anc) : opRecordHash \in DOMAIN blocks[anc[i]].OpRecords}
    IN  IF holding = {}
        THEN {newestHash}
        ELSE LET oldest == CHOOSE i \in holding : \A j \in holding : j <= i
             IN  {anc[i] : i \in 1 .. oldest} \cup {blocks[anc[oldest]].PrevHash}

\* the tips a later read of the same goroutine can return after it has read tip
\* (reads of one location by one goroutine do not go back in time)
racyTipsAfter(blocks, newestHash, opRecordHash, tip) ==
    {t \in racyTips(blocks, newestHash, opRecordHash) :
        tip = GenesisBlockHash
        \/ (t # GenesisBlockHash /\ blocks[t].BlockNum >= blocks[tip].BlockNum)}

\* inner loop: a poll that returns, and the reply of the call
WaitChain ==
    /\ running
    /\ callPC = "waitChain"
    /\ \E tip \in racyTips(Blocks, NewestHash, ComputeOpRecordHash(callOp)) :
         LET poll == pollChain(Blocks, tip, ComputeOpRecordHash(callOp),
                               callReq.validateNum, MinerKey)
         IN  /\ poll.ret # "sleep"
             /\ \E tipOfReply \in racyTipsAfter(Blocks, NewestHash,
                                                ComputeOpRecordHash(callOp), tip) :
                  callRes' = callReply(poll, GetInkTraversal(Blocks, tipOfReply, MinerKey))
    /\ callPC' = "done"
    /\ UNCHANGED <<chainVars, pending, minerVars, calls, callReq, callOp>>

(***************************************************************************)
(* Art-node queries.  GetInk and GetChildren read the store without its    *)
(* lock; GetShapes holds blockChain.RLock() from its first statement to    *)
(* its return, so it runs only while no goroutine holds the write lock.    *)
(***************************************************************************)
\* Go's conversion uint32(ink) of an int: the low 32 bits, kept as the pair
\* of the high and the low 16-bit words
Word == 65536

uint32(i) == <<((i - (i % Word)) \div Word) % Word, i % Word>>

\* MArtNode.GetInk
GetInk ==
    /\ mayStart
    /\ calls' = calls + 1
    /\ callReq' = [kind |-> "GetInk"]
    /\ callOp' = None
    /\ callPC' = "done"
    /\ LET ink == GetInkTraversal(Blocks, NewestHash, MinerKey)
       IN  callRes' = [err |-> "ok", validated |-> FALSE, inkRemaining |-> uint32(ink)]
    /\ UNCHANGED <<chainVars, pending, minerVars>>

\* the hashes an art node may name: stored blocks, the genesis hash, and a
\* hash that identifies nothing
UnknownHash == <<"unknown">>

BlockHashes == DOMAIN Blocks \cup {GenesisBlockHash, UnknownHash}

\* MArtNode.GetShapes.  The op strings are collected in a slice that the
\* handler declares itself (shapeHashes := make(...)); the reply the caller
\* gets is the slice behind the parameter of the same name, which the
\* handler never writes.
GetShapes(blockHash) ==
    /\ mayStart
    /\ bcLock = "free"
    /\ calls' = calls + 1
    /\ callReq' = [kind |-> "GetShapes", blockHash |-> blockHash]
    /\ callOp' = None
    /\ callPC' = "done"
    /\ LET reply == {}
       IN  IF blockHash \in DOMAIN Blocks
           THEN LET block == Blocks[blockHash]
                    shapeHashes == {block.OpRecords[h].Op : h \in DOMAIN block.OpRecords}
                IN  callRes' = [err |-> "ok", validated |-> FALSE, shapeHashes |-> reply]
           ELSE callRes' = [err |-> "INVALIDBLOCKHASH", validated |-> FALSE,
                            shapeHashes |-> reply]
    /\ UNCHANGED <<chainVars, pending, minerVars>>

\* MArtNode.GetChildren
GetChildren(blockHash) ==
    /\ mayStart
    /\ calls' = calls + 1
    /\ callReq' = [kind |-> "GetChildren", blockHash |-> blockHash]
    /\ callOp' = None
    /\ callPC' = "done"
    /\ IF blockHash \notin DOMAIN Blocks
       THEN callRes' = [err |-> "INVALIDBLOCKHASH", validated |-> FALSE, blockHashes |-> {}]
       ELSE callRes' = [err |-> "ok", validated |-> FALSE,
                        blockHashes |-> {hash \in DOMAIN Blocks :
                                            Blocks[hash].PrevHash = blockHash}]
    /\ UNCHANGED <<chainVars, pending, minerVars>>

(***************************************************************************)
(* The specification.                                                      *)
(***************************************************************************)
Next ==
    \/ MinerLock
    \/ computeBlock
    \/ MinerInsert
    \/ MinerRemove
    \/ MinerSend
    \/ \E op \in GossipOps \cup MinedOps : DisseminateOperation(op)
    \/ \E block \in ReceivedBlocks : DisseminateBlock(block)
    \/ \E d \in Paths, validateNum \in ValidateNums : AddShape(d, validateNum)
    \/ \E shapeHash \in ShapeHashes, validateNum \in ValidateNums :
          DeleteShape(shapeHash, validateNum)
    \/ broadcastNewOperation
    \/ WaitPending
    \/ WaitChain
    \/ GetInk
    \/ \E blockHash \in BlockHashes : GetShapes(blockHash)
    \/ \E blockHash \in BlockHashes : GetChildren(blockHash)

Spec == Init /\ [][Next]_vars

(***************************************************************************)
(* The peer without art nodes: the mining loop and the neighbours' calls.  *)
(* The Go scheduler runs every runnable goroutine, so each step of the     *)
(* mining loop is taken when it stays possible; what the neighbours send   *)
(* is up to them.                                                          *)
(***************************************************************************)
MiningNext ==
    \/ MinerLock
    \/ computeBlock
    \/ MinerInsert
    \/ MinerRemove
    \/ MinerSend
    \/ \E op \in GossipOps \cup MinedOps : DisseminateOperation(op)
    \/ \E block \in ReceivedBlocks : DisseminateBlock(block)

(***************************************************************************)
(* The same peer with a roster that may hold a neighbour that cannot be    *)
(* dialled when the peer sends.                                            *)
(***************************************************************************)
FanOutNext ==
    \/ MinerLock
    \/ computeBlock
    \/ MinerInsert
    \/ MinerRemove
    \/ MinerSend
    \/ MinerSendFails
    \/ \E op \in GossipOps \cup MinedOps : DisseminateOperation(op)
    \/ \E op \in GossipOps \cup MinedOps : DisseminateOperationFails(op)
    \/ \E block \in ReceivedBlocks : DisseminateBlock(block)

FanOutSpec == Init /\ [][FanOutNext]_vars

MiningSpec ==
    /\ Init
    /\ [][MiningNext]_vars
    /\ WF_vars(MinerLock)
    /\ WF_vars(computeBlock)
    /\ WF_vars(MinerInsert)
    /\ WF_vars(MinerRemove)
    /\ WF_vars(MinerSend)

(***************************************************************************)
(* The claims.                                                             *)
(***************************************************************************)
\* the tip's ancestry, tip first, and the ops of its i-th block
TipAncestry == Ancestry(Blocks, NewestHash)

opsAt(i) == Blocks[TipAncestry[i]].OpRecords

\* C1: for every public key and every prefix of the tip's ancestry applied
\* oldest-first, the key's ink balance (its mining rewards, minus the ink of
\* its creates, plus the ink of its deletes) is at least 0.
C1_InkNeverNegative ==
    \A k \in PubKeys : \A i \in 1 .. Len(TipAncestry) :
        GetInkTraversal(Blocks, TipAncestry[i], k) >= 0

\* a create at position i of the ancestry is live when no delete of its op
\* string sits in the same or a later block (a smaller position)
isLive(i, h) ==
    /\ ~isOpDelete(opsAt(i)[h].Op)
    /\ ~\E j \in 1 .. i : \E g \in DOMAIN opsAt(j) :
            opsAt(j)[g].Op = concatDelete(opsAt(i)[h].Op)

\* C2: no two live creates of the tip's ancestry whose authors differ have
\* overlapping polylines.
C2_NoCrossAuthorOverlap ==
    \A i, j \in 1 .. Len(TipAncestry) :
        \A h \in DOMAIN opsAt(i) : \A g \in DOMAIN opsAt(j) :
            (/\ isLive(i, h)
             /\ isLive(j, g)
             /\ opsAt(i)[h].AuthorPubKey # opsAt(j)[g].AuthorPubKey)
            => ~CheckOverlap(ConvertPathToPoints(parsePath(opsAt(i)[h].Op)[1]),
                             ConvertPathToPoints(parsePath(opsAt(j)[g].Op)[1]))

\* C3: when the N-confirmation wait has returned success for op-hash h, the
\* block hash it returned is a block of the tip's ancestry that contains h, the
\* tip's block_num minus that block's block_num is at least validate_num, and
\* the op's author is the caller.
C3_ValidatedIsConfirmed ==
    (callPC = "done" /\ callRes.validated) =>
        LET h == ComputeOpRecordHash(callOp)
            blockHash == callRes.blockHash
        IN  /\ \E i \in 1 .. Len(TipAncestry) : TipAncestry[i] = blockHash
            /\ h \in DOMAIN Blocks[blockHash].OpRecords
            /\ Blocks[NewestHash].BlockNum - Blocks[blockHash].BlockNum
                  >= callReq.validateNum
            /\ Blocks[blockHash].OpRecords[h].AuthorPubKey = MinerKey

\* a wait that returned success for a validate_num above 0
C3_Witness ==
    callPC = "done" /\ callRes.validated /\ callReq.validateNum > 0

\* C4: a wait returns failure only when, at that moment, its op-hash has left
\* the pending pool and is in no block of the tip's ancestry; it never returns
\* failure while the op is still in the pool or is in the tip's ancestry.
C4_FailureOnlyWhenOrphaned ==
    [][(callPC = "waitChain" /\ callPC' = "done" /\ ~callRes'.validated) =>
          LET h == ComputeOpRecordHash(callOp)
          IN  /\ h \notin DOMAIN pending
              /\ \A i \in 1 .. Len(TipAncestry) : h \notin DOMAIN opsAt(i)]_vars

\* C5: no op-hash appears in two different blocks of the tip's ancestry.
C5_NoOpMinedTwice ==
    \A i, j \in 1 .. Len(TipAncestry) :
        i # j => DOMAIN opsAt(i) \cap DOMAIN opsAt(j) = {}

\* C6: from the removal of a mined block's ops until its broadcast has
\* completed, none of the block's ops is in the pending pool.
C6_MinedOpsStayOutOfPool ==
    minerPC = "send" => DOMAIN mined.OpRecords \cap DOMAIN pending = {}

\* C7: when the store is not empty, newest_hash is the hash of a stored block
\* whose block_num is maximal among the stored blocks.
C7_TipIsMaximal ==
    DOMAIN Blocks # {} =>
        /\ NewestHash \in DOMAIN Blocks
        /\ \A b \in DOMAIN Blocks : Blocks[b].BlockNum <= Blocks[NewestHash].BlockNum

\* the miner has just inserted a block into a store that held one already
C7_Witness ==
    minerPC = "remove" /\ Cardinality(DOMAIN Blocks) >= 2

\* C8: every stored block whose prev_hash is not the genesis hash has its
\* parent in the store, and its block_num is the parent's plus one.
C8_BlockNumContinuity ==
    \A b \in DOMAIN Blocks :
        Blocks[b].PrevHash # GenesisBlockHash =>
            /\ Blocks[b].PrevHash \in DOMAIN Blocks
            /\ Blocks[b].BlockNum = Blocks[Blocks[b].PrevHash].BlockNum + 1

\* a stored block whose parent is a stored block
C8_Witness ==
    \E b \in DOMAIN Blocks : Blocks[b].PrevHash \in DOMAIN Blocks

\* the difficulty the specification assigns to a block
difficulty(block) ==
    IF DOMAIN block.OpRecords = {} THEN PoWDifficultyNoOpBlock ELSE PoWDifficultyOpBlock

\* C9: the hash of every stored block ends in at least difficulty(B) '0'
\* characters, the NoOp difficulty for an empty op set and the Op difficulty
\* otherwise.
C9_ProofOfWork ==
    \A b \in DOMAIN Blocks :
        TrailingZeros(ComputeBlockHash(Blocks[b])) >= difficulty(Blocks[b])

\* the miner has inserted an Op block for which ops were admitted to the pool
\* after the nonce search had begun
C9_Witness ==
    /\ minerPC = "remove"
    /\ admitted
    /\ DOMAIN mined.OpRecords # {}
    /\ ComputeBlockHash(mined) \in DOMAIN Blocks

\* C10: every op of every stored block carries a signature that verifies
\* under the op's author_pub_key over the op string.
C10_SignaturesVerify ==
    \A b \in DOMAIN Blocks : \A h \in DOMAIN Blocks[b].OpRecords :
        LET op == Blocks[b].OpRecords[h]
        IN  ecdsaVerify(op.AuthorPubKey, op.Op, op.OpSig)

effectiveBalance ==
    GetInkTraversal(Blocks, NewestHash, MinerKey) + sumOpInk(pending, DOMAIN pending, MinerKey)

\* C12: in whatever state a call finds the peer, AddShape answers
\* INSUFFICIENTINK only when ink_required exceeds the caller's balance at the
\* tip after the caller's own pending debits and refunds, and it never accepts
\* a create whose ink_required exceeds it.
C12_InsufficientInkExactly ==
    \A d \in Paths :
        LET err == addShapeError(Blocks, NewestHash, pending, d)
            inkRequired == CalculateInkRequired(ConvertPathToPoints(d))
        IN  /\ err = "INSUFFICIENTINK" => inkRequired > effectiveBalance
            /\ inkRequired > effectiveBalance => err # "ok"

\* whether a path overlaps a live create of another author in the tip's
\* ancestry, a create of another author in the pool, any op of another author
\* at all
overlapsLiveOfOthers(d) ==
    \E i \in 1 .. Len(TipAncestry) : \E h \in DOMAIN opsAt(i) :
        /\ isLive(i, h)
        /\ opsAt(i)[h].AuthorPubKey # MinerKey
        /\ CheckOverlap(ConvertPathToPoints(d),
                        ConvertPathToPoints(parsePath(opsAt(i)[h].Op)[1]))

overlapsPendingOfOthers(d) ==
    \E h \in DOMAIN pending :
        /\ ~isOpDelete(pending[h].Op)
        /\ pending[h].AuthorPubKey # MinerKey
        /\ CheckOverlap(ConvertPathToPoints(d),
                        ConvertPathToPoints(parsePath(pending[h].Op)[1]))

overlapsAnyOfOthers(d) ==
    \E op \in MinedOps \cup {pending[h] : h \in DOMAIN pending} :
        /\ op.AuthorPubKey # MinerKey
        /\ CheckOverlap(ConvertPathToPoints(d), ConvertPathToPoints(parsePath(op.Op)[1]))

\* C13: in whatever state a call finds the peer, AddShape does not accept a
\* create that overlaps a live create of another author in the tip's ancestry
\* or a create of another author in the pool, and it answers SHAPEOVERLAP only
\* when the create overlaps a shape of another author.
C13_OverlapRejected ==
    \A d \in Paths :
        LET err == addShapeError(Blocks, NewestHash, pending, d)
        IN  /\ (overlapsLiveOfOthers(d) \/ overlapsPendingOfOthers(d)) => err # "ok"
            /\ err = "SHAPEOVERLAP" => overlapsAnyOfOthers(d)

C15_DeleteOfOthersRefused ==
    [][LET found == GetOpRecordTraversal(Blocks, NewestHash, callReq'.shapeHash)
       IN  (/\ calls' = calls + 1
            /\ callReq'.kind = "DeleteShape"
            /\ found.exists
            /\ found.opRecord.AuthorPubKey # MinerKey)
           => /\ callPC' = "done"
              /\ callRes'.err = "SHAPEOWNER"
              /\ callOp' = None
              /\ pending' = pending]_vars

C15_Witness ==
    /\ callPC = "done"
    /\ callReq.kind = "DeleteShape"
    /\ callRes.err = "SHAPEOWNER"
    /\ LET found == GetOpRecordTraversal(Blocks, NewestHash, callReq.shapeHash)
       IN  /\ found.exists
           /\ found.opRecord.AuthorPubKey = OtherKey
           /\ ecdsaVerify(OtherKey, found.opRecord.Op, found.opRecord.OpSig)

\* the d attributes of the creates in the tip's ancestry that pubKey did not
\* author and that no delete of the same or a later block targets
liveShapesOfOthers(pubKey) ==
    {parsePath(opsAt(i)[h].Op)[1] :
        <<i, h>> \in {x \in UNION {{<<j, g>> : g \in DOMAIN opsAt(j)} :
                                      j \in 1 .. Len(TipAncestry)} :
                        /\ isLive(x[1], x[2])
                        /\ opsAt(x[1])[x[2]].AuthorPubKey # pubKey}}

\* C16: for every key, GetShapeTraversal from the tip yields exactly the
\* creates of other authors in the tip's ancestry whose op string no delete of
\* the same or a later block targets.
C16_ViewIsLiveShapesOfOthers ==
    \A k \in PubKeys : GetShapeTraversal(Blocks, NewestHash, k) = liveShapesOfOthers(k)

\* the sum of amount over the members of S
RECURSIVE sumOf(_, _)
sumOf(amount, S) ==
    IF S = {}
    THEN 0
    ELSE LET x == CHOOSE y \in S : TRUE
         IN  amount[x] + sumOf(amount, S \ {x})

\* the positions of the tip's ancestry, and the ops at them
positions == 1 .. Len(TipAncestry)

opsInAncestry == UNION {{<<i, h>> : h \in DOMAIN opsAt(i)} : i \in positions}

\* the ledger of pubKey over the tip's ancestry: rewards of the blocks it
\* mined, less the ink of its creates, plus the ink of its deletes
rewards(pubKey) ==
    sumOf([i \in positions |->
              IF DOMAIN opsAt(i) = {} THEN InkPerNoOpBlock ELSE InkPerOpBlock],
          {i \in positions : Blocks[TipAncestry[i]].MinerPubKey = pubKey})

inkOf(pubKey, deletes) ==
    sumOf([x \in opsInAncestry |-> opsAt(x[1])[x[2]].InkUsed],
          {x \in opsInAncestry :
              /\ opsAt(x[1])[x[2]].AuthorPubKey = pubKey
              /\ isOpDelete(opsAt(x[1])[x[2]].Op) = deletes})

C18_GetInkFlooredAtZero ==
    [][(calls' = calls + 1 /\ callReq'.kind = "GetInk")
       => LET ink == GetInkTraversal(Blocks, NewestHash, MinerKey)
          IN  callRes'.inkRemaining = IF ink < 0 THEN <<0, 0>> ELSE <<0, ink>>]_vars

\* C19: GetShapes answers a hash of a stored block with exactly the op strings
\* of that block's ops, and any other hash with INVALIDBLOCKHASH and no result.
C19_GetShapesReturnsOps ==
    [][(calls' = calls + 1 /\ callReq'.kind = "GetShapes")
       => IF callReq'.blockHash \in DOMAIN Blocks
          THEN /\ callRes'.err = "ok"
               /\ callRes'.shapeHashes
                    = {Blocks[callReq'.blockHash].OpRecords[h].Op :
                          h \in DOMAIN Blocks[callReq'.blockHash].OpRecords}
          ELSE /\ callRes'.err = "INVALIDBLOCKHASH"
               /\ callRes'.shapeHashes = {}]_vars

\* C20: GetChildren answers the genesis hash and every hash of a stored block
\* with exactly the hashes of the stored blocks whose PrevHash is the
\* argument, and answers INVALIDBLOCKHASH only for a hash that names no block.
C20_GetChildrenReturnsChildren ==
    [][(calls' = calls + 1 /\ callReq'.kind = "GetChildren")
       => IF callReq'.blockHash \in DOMAIN Blocks \cup {GenesisBlockHash}
          THEN /\ callRes'.err = "ok"
               /\ callRes'.blockHashes
                    = {hash \in DOMAIN Blocks :
                          Blocks[hash].PrevHash = callReq'.blockHash}
          ELSE callRes'.err = "INVALIDBLOCKHASH"]_vars

C22_AdoptsLongerChain ==
    (/\ received = ForeignChild
     /\ TipBlockNum < ForeignChild.BlockNum
     /\ ComputeBlockHash(ForeignBlock) \notin DOMAIN Blocks)
    ~> (/\ {ComputeBlockHash(ForeignBlock), ComputeBlockHash(ForeignChild)}
             \subseteq DOMAIN Blocks
        /\ NewestHash = ComputeBlockHash(ForeignChild))

\* C23: the mining loop keeps inserting blocks, whatever the neighbours send:
\* the tip reaches every block_num up to the bound of the model.
C23_MiningContinues == <>(TipBlockNum = MaxBlockNum)

\* whether an op is valid by itself: in bounds, signed by its author, and
\* leaving its author's balance at the tip at 0 or above
individuallyValid(op) ==
    /\ ~CheckOutOfBounds(ConvertPathToPoints(parsePath(op.Op)[1]), CanvasXMax)
    /\ ecdsaVerify(op.AuthorPubKey, op.Op, op.OpSig)
    /\ GetInkTraversal(Blocks, NewestHash, op.AuthorPubKey)
         + (IF isOpDelete(op.Op) THEN op.InkUsed ELSE 0 - op.InkUsed) >= 0

\* C24: a DisseminateOperation call whose op is not individually valid leaves
\* the pending pool as it was.
C24_InvalidGossipDropped ==
    [][\A op \in GossipOps \cup MinedOps :
          (DisseminateOperation(op) /\ ~individuallyValid(op)) => pending' = pending]_vars

\* C25: the peer keeps running when a neighbour cannot be dialled during a
\* fan-out: its process does not exit.
C25_FailedDialIsSkipped == running

\* C26: when the code that accepts a delivered block is applied to a block it
\* finds valid and whose BlockNum is at most the tip's, the tip it leaves is
\* the tip it found.
C26_TiesKeepFirstSeen ==
    \A block \in SiblingBlocks \cup ChildBlocks :
        (isValidBlock(Blocks, NewestHash, block) /\ block.BlockNum <= TipBlockNum)
        => \A tip \in switchToLongestBranch(
                          saveBlockToBlockChain(Blocks, NewestHash, block).Blocks) :
               tip = NewestHash

\* whether an op is valid as of a block: its author's balance there covers a
\* create, which is in bounds and overlaps no shape of another author live
\* there; a delete is a refund
liveAsOf(blocks, blockHash, i, h) ==
    LET anc == Ancestry(blocks, blockHash)
    IN  /\ ~isOpDelete(blocks[anc[i]].OpRecords[h].Op)
        /\ ~\E j \in 1 .. i : \E g \in DOMAIN blocks[anc[j]].OpRecords :
                blocks[anc[j]].OpRecords[g].Op
                    = concatDelete(blocks[anc[i]].OpRecords[h].Op)

validAsOf(blocks, blockHash, op) ==
    LET anc == Ancestry(blocks, blockHash)
        points == ConvertPathToPoints(parsePath(op.Op)[1])
    IN  \/ isOpDelete(op.Op)
        \/ /\ ~CheckOutOfBounds(points, CanvasXMax)
           /\ GetInkTraversal(blocks, blockHash, op.AuthorPubKey) >= op.InkUsed
           /\ ~\E i \in 1 .. Len(anc) : \E h \in DOMAIN blocks[anc[i]].OpRecords :
                   /\ liveAsOf(blocks, blockHash, i, h)
                   /\ blocks[anc[i]].OpRecords[h].AuthorPubKey # op.AuthorPubKey
                   /\ CheckOverlap(points,
                                   ConvertPathToPoints(
                                       parsePath(blocks[anc[i]].OpRecords[h].Op)[1]))

\* C27: for a delivered block whose parent is stored, the validation of its
\* ops gives the verdict that the ancestry of the block's PrevHash gives: a
\* block on a fork is judged against its own parent chain.
C27_JudgedAgainstParentChain ==
    \A block \in SiblingBlocks \cup ChildBlocks :
        (block.PrevHash \in DOMAIN Blocks
         /\ \A h \in DOMAIN block.OpRecords :
               ecdsaVerify(block.OpRecords[h].AuthorPubKey, block.OpRecords[h].Op,
                           block.OpRecords[h].OpSig))
        => (hasValidOperations(Blocks, NewestHash, block.OpRecords)
            <=> \A h \in DOMAIN block.OpRecords :
                    validAsOf(Blocks, block.PrevHash, block.OpRecords[h]))

\* C28: the validation of a delivered block's ops accepts every validly signed
\* delete, whatever its author's balance and whatever it overlaps.
C28_DeleteIsRefund ==
    \A block \in SiblingBlocks \cup ChildBlocks :
        \A h \in DOMAIN block.OpRecords :
            (/\ isOpDelete(block.OpRecords[h].Op)
             /\ ecdsaVerify(block.OpRecords[h].AuthorPubKey, block.OpRecords[h].Op,
                            block.OpRecords[h].OpSig))
            => isValidOperation(Blocks, NewestHash, block.OpRecords[h])

\* C29: the election over the neighbours' chains and the local chain returns
\* a chain of a cluster of identical copies of maximum count whose tip has the
\* greatest BlockNum among the chains of such clusters, and among several of
\* those the one met first in the list.
C29_ElectionPicksMajorityLongest ==
    \A neighbourChains \in NeighbourChains :
        LET localChain == [Blocks |-> Blocks, NewestHash |-> NewestHash]
            all == neighbourChains \o <<localChain>>
            count(bc) == Cardinality({i \in 1 .. Len(all) : all[i] = bc})
            inMaxCluster(bc) == \A i \in 1 .. Len(all) : count(all[i]) <= count(bc)
            best(i) == /\ inMaxCluster(all[i])
                       /\ \A j \in 1 .. Len(all) :
                             inMaxCluster(all[j]) => tipBlockNum(all[j]) <= tipBlockNum(all[i])
            first == CHOOSE i \in 1 .. Len(all) : best(i) /\ \A j \in 1 .. i - 1 : ~best(j)
        IN  getMajorityBlockChainFromNeighbours(neighbourChains, localChain) = {all[first]}

\* C30: when the pool is recomputed for an adopted chain, no op hash that
\* occurs in a block of the adopted store stays in the pool, whether or not
\* the block is in the ancestry of the adopted tip, and every op hash removed
\* occurs in a block of the adopted store.
C30_PoolPurgedOfAdoptedOps ==
    \A bc \in ForeignChains \cup {ForkedChain} :
        LET pool == updatePendingOperations(bc, pending)
            adoptedOps == UNION {DOMAIN bc.Blocks[b].OpRecords : b \in DOMAIN bc.Blocks}
        IN  /\ DOMAIN pool \cap adoptedOps = {}
            /\ (DOMAIN pending \ DOMAIN pool) \subseteq adoptedOps

\* C31: the nonce search is pre-emptible: while it is in progress, the handler
\* of a block delivered by a peer can take the chain store to insert the
\* block.
C31_SearchIsPreemptible ==
    minerPC = "computeBlock"
    => ENABLED (\E block \in ReceivedBlocks : DisseminateBlock(block))

\* C32: a step in which an art-node call reads the chain store (the checks of
\* AddShape and DeleteShape, GetInk, GetShapes, GetChildren, a poll of the
\* wait that returns) is taken only while no task holds the store's write
\* lock.
C32_StoreReadsUnderLock ==
    [][(calls' = calls + 1 \/ (callPC = "waitChain" /\ callPC' = "done"))
       => bcLock = "free"]_vars

(***************************************************************************)
(* Lock nesting.  pendingOperations and connectedMiners are taken and       *)
(* released inside one step of the model; the definitions below give, for  *)
(* the step a task is about to make, the locks it holds together.          *)
(***************************************************************************)
\* the locks the mining loop holds between two of its steps, oldest first
minerHolds ==
    IF bcLock = "miner" THEN <<"blockChain">> ELSE <<>>

\* seeded fault for C34: the loop takes the pool before the chain store
minerTakes_PoolFirst ==
    CASE minerPC = "Lock" -> <<"pendingOperations", "blockChain">>
      [] minerPC = "computeBlock" -> <<>>
      [] minerPC = "remove" -> <<"pendingOperations">>
      [] minerPC = "send" -> <<"connectedMiners">>
      [] OTHER -> <<>>

\* the locks the next step of the mining loop acquires, in order: the chain
\* store at the top of the loop, the pool in an iteration of computeBlock and
\* in removeOperationsFromPendingOperations, the roster in
\* sendToAllConnectedMiners
minerTakes ==
    CASE minerPC = "Lock" -> <<"blockChain">>
      [] minerPC = "computeBlock" -> <<"pendingOperations">>
      [] minerPC = "remove" -> <<"pendingOperations">>
      [] minerPC = "send" -> <<"connectedMiners">>
      [] OTHER -> <<>>

\* the handlers and art-node steps that take a lock
LockingHandlers ==
    {"DisseminateOperation", "broadcastNewOperation", "sendToAllConnectedMiners",
     "DisseminateBlock", "GetShapes", "GetBlockChain", "updateBlockChain"}

\* the locks a handler holds together at its deepest point, oldest first
handlerTakes(handler) ==
    CASE handler \in {"DisseminateOperation", "broadcastNewOperation"} ->
             <<"pendingOperations">>
      [] handler = "sendToAllConnectedMiners" -> <<"connectedMiners">>
      [] handler = "DisseminateBlock" -> <<"blockChain", "blockChain">>
      [] handler = "updateBlockChain" ->
             <<"blockChain", "blockChain", "pendingOperations">>
      [] OTHER -> <<"blockChain">>

\* C33: the step of the mining loop that dials a neighbour that is on the
\* roster is made holding at most one of the locks of the chain store, the
\* pool and the roster.
C33_CallsHoldOneLockAtMost ==
    [][minerPC = "send" /\ minerPC' = "exited"
       => Len(minerHolds \o minerTakes) <= 1]_vars

\* the pool is never followed by the chain store in an order of acquisition
respectsOrder(order) ==
    \A i, j \in 1..Len(order) :
        i < j => ~(order[i] = "pendingOperations" /\ order[j] = "blockChain")

RECURSIVE walkIsTotal(_, _, _)
walkIsTotal(blocks, blockHash, seen) ==
    \/ blockHash = GenesisBlockHash
    \/ /\ blockHash \in DOMAIN blocks
       /\ blockHash \notin seen
       /\ walkIsTotal(blocks, blocks[blockHash].PrevHash, seen \cup {blockHash})

C36_DisseminateBlockReturns ==
    (bcLock = "DisseminateBlock") ~> (bcLock = "free")

\* C37: DeleteShape builds a refund only for a create that no op of the tip's
\* ancestry deletes: it refuses a shape hash that names a delete op, and one
\* that names a shape already deleted, so that no create is refunded twice.
C37_RefundsOnlyLiveCreates ==
    \A shapeHash \in ShapeHashes :
        LET found == GetOpRecordTraversal(Blocks, NewestHash, shapeHash)
        IN  (found.exists /\ VerifyOpRecordAuthor(MinerKey, found.opRecord))
            => /\ ~isOpDelete(found.opRecord.Op)
               /\ ~\E x \in opsInAncestry :
                      opsAt(x[1])[x[2]].Op = concatDelete(found.opRecord.Op)

C39_FreshPeerCatchesUp ==
    (DOMAIN Blocks = {} /\ received = ForeignBlock)
    ~> (ComputeBlockHash(ForeignBlock) \in DOMAIN Blocks)

====
